---- MODULE Spec2Model ----
(***************************************************************************)
(* Model of the spirals training driver (src/spirals.py) and of the        *)
(* word-vector script (src/scripts/test_spacy.py).                         *)
(*                                                                         *)
(* Numbers are exact rationals <<n, d>> (d > 0, lowest terms): the code's  *)
(* true division (from __future__ import division) is rational division.   *)
(* A summary value is a record [k, n, d]: k = "num" is the number n/d,     *)
(* k = "sqrt" is the square root of n/d (np.std), k = "nan" is numpy's nan.*)
(***************************************************************************)
EXTENDS Integers, Sequences, FiniteSets, TLC

VARIABLES
    pc,           \* position of the running function / script
    metrics,      \* summarize_metrics: the dict, as its items() sequence
    n_timesteps,  \* summarize_metrics: the divisor
    summary,      \* summarize_metrics: the dict built and returned
    metric,       \* visualize: the metric list
    sel_idx,      \* visualize: the selected indices (0-based, as numpy)
    tokens,       \* script: the parsed tokens
    token1,       \* script: position of the outer loop
    token2,       \* script: position of the inner loop
    out,          \* script: the lines printed so far
    args,         \* default_args / load_data: the argparse namespace
    modalities,   \* load_data: the modalities parameter
    train_data,   \* load_data: the training dataset
    test_data     \* load_data: the test dataset

vars == <<pc, metrics, n_timesteps, summary, metric, sel_idx, tokens, token1,
          token2, out, args, modalities, train_data, test_data>>

----------------------------------------------------------------------------
(* Bounds of the model *)
MaxLen == 2        \* longest list of per-sequence metric values
MaxSample == 1     \* metric samples range over 0..MaxSample
MaxT == 2          \* n_timesteps ranges over 0..MaxT

----------------------------------------------------------------------------
(* Exact rational arithmetic *)
Abs(x) == IF x < 0 THEN -x ELSE x

RECURSIVE Gcd(_, _)
Gcd(a, b) == IF b = 0 THEN a ELSE Gcd(b, a % b)

\* n/d in lowest terms with a positive denominator (d # 0)
Rat(n, d) ==
    LET g == Gcd(Abs(n), Abs(d))
        s == IF d < 0 THEN -1 ELSE 1
    IN  <<s * (n \div g), s * (d \div g)>>

RatSub(a, b) == Rat(a[1] * b[2] - b[1] * a[2], a[2] * b[2])
RatAdd(a, b) == Rat(a[1] * b[2] + b[1] * a[2], a[2] * b[2])
RatMul(a, b) == Rat(a[1] * b[1], a[2] * b[2])
RatDiv(a, b) == Rat(a[1] * b[2], a[2] * b[1])

RECURSIVE SeqSum(_)
SeqSum(s) == IF s = <<>> THEN 0 ELSE Head(s) + SeqSum(Tail(s))

RECURSIVE RatSum(_)
RatSum(s) == IF s = <<>> THEN <<0, 1>> ELSE RatAdd(Head(s), RatSum(Tail(s)))

Num(r) == [k |-> "num", n |-> r[1], d |-> r[2]]
Sqrt(r) == [k |-> "sqrt", n |-> r[1], d |-> r[2]]
NaN == [k |-> "nan", n |-> 0, d |-> 1]

EmptyDict == [x \in {} |-> NaN]

\* d[key] = val of a dict held as a function
DictSet(d, key, val) ==
    [x \in DOMAIN d \cup {key} |-> IF x = key THEN val ELSE d[x]]

----------------------------------------------------------------------------
(* summarize_metrics *)

\* A dict value: a Python list of numbers, or a plain number (held in v[1])
ListVal(s) == [list |-> TRUE, v |-> s]
ScalarVal(x) == [list |-> FALSE, v |-> <<x>>]

Samples == 0 .. MaxSample
Lists == UNION {[1 .. l -> Samples] : l \in 0 .. MaxLen}
Scalars == {3, 4}

\* np.mean(val): the sum over the number of elements, nan on an empty list
NpMean(val) ==
    IF val = <<>> THEN NaN ELSE Num(Rat(SeqSum(val), Len(val)))

\* np.std(val): sqrt(mean(abs(x - x.mean()) ** 2)), nan on an empty list
NpStd(val) ==
    IF val = <<>> THEN NaN
    ELSE LET m == Rat(SeqSum(val), Len(val))
             dev == [i \in 1 .. Len(val) |->
                        LET x == RatSub(<<val[i], 1>>, m) IN RatMul(x, x)]
         IN  Sqrt(RatDiv(RatSum(dev), <<Len(val), 1>>))

\* key + '_std'
StdKey(key) ==
    CASE key = "kld_loss" -> "kld_loss_std"
      [] key = "rec_loss" -> "rec_loss_std"
      [] key = "mse" -> "mse_std"
      [] key = "mse_std" -> "mse_std_std"

\* The iteration without the division of a number by n_timesteps
SummarizeItemUndivided(sm, key, val, n) ==
    IF val.list
    THEN DictSet(DictSet(sm, key, NpMean(val.v)), StdKey(key), NpStd(val.v))
    ELSE DictSet(sm, key, Num(<<val.v[1], 1>>))

\* One iteration of the loop over metrics.items()
SummarizeItem(sm, key, val, n) ==
    IF val.list
    THEN DictSet(DictSet(sm, key, NpMean(val.v)), StdKey(key), NpStd(val.v))
    ELSE DictSet(sm, key, Num(Rat(val.v[1], n)))

\* The loop over metrics.items(), in the dict's iteration order
RECURSIVE SummarizeLoop(_, _, _)
SummarizeLoop(sm, items, n) ==
    IF items = <<>> THEN sm
    ELSE SummarizeLoop(SummarizeItem(sm, items[1][1], items[1][2], n),
                       Tail(items), n)

\* The keys the print statement looks up in the summary
PrintedKeys == {"kld_loss", "rec_loss", "mse", "mse_std"}

MetricKeys == PrintedKeys

\* The values a key may hold: the losses are accumulated numbers
\* (compute_metrics, kld_loss and rec_loss), the others any value
ValuesOf(key) ==
    IF key \in {"kld_loss", "rec_loss"}
    THEN {ScalarVal(3)}
    ELSE {ListVal(s) : s \in Lists} \cup {ScalarVal(x) : x \in Scalars}

\* The sequences of different keys out of the set keys
RECURSIVE KeyOrders(_)
KeyOrders(keys) ==
    {<<>>} \cup
    UNION {{<<k>> \o t : t \in KeyOrders(keys \ {k})} : k \in keys}

\* The dicts whose keys are, in iteration order, those of ks, each as the
\* sequence of its items
RECURSIVE ItemsOver(_)
ItemsOver(ks) ==
    IF ks = <<>> THEN {<<>>}
    ELSE UNION {{<<<<Head(ks), v>>>> \o t : t \in ItemsOver(Tail(ks))} :
                   v \in ValuesOf(Head(ks))}

\* summarize_metrics(metrics, n_timesteps), from the call to the return or
\* to the exception that leaves it
SummarizeMetrics ==
    /\ pc = "summarize_metrics"
    /\ IF n_timesteps = 0 /\ \E i \in 1 .. Len(metrics) : ~metrics[i][2].list
       THEN \* val / n_timesteps divides by zero
            /\ pc' = "ZeroDivisionError"
            /\ summary' = summary
       ELSE LET sm == SummarizeLoop(EmptyDict, metrics, n_timesteps)
            IN  IF PrintedKeys \subseteq DOMAIN sm
                THEN /\ pc' = "return"
                     /\ summary' = sm
                ELSE \* the print looks up a key the summary lacks
                     /\ pc' = "KeyError"
                     /\ summary' = summary
    /\ UNCHANGED <<metrics, n_timesteps, metric, sel_idx, tokens, token1,
                   token2, out, args, modalities, train_data, test_data>>

----------------------------------------------------------------------------
(* Values of the variables a function does not use *)
NoArgs == [modalities |-> <<>>, rec_mults |-> [none |-> TRUE, d |-> EmptyDict],
           corrupt |-> EmptyDict, normalize |-> <<>>,
           train_subdir |-> "train", test_subdir |-> "test"]
NoData == [x \in {} |-> <<>>]

InitSummarize ==
    /\ pc = "summarize_metrics"
    /\ \E ks \in KeyOrders(MetricKeys) : metrics \in ItemsOver(ks)
    /\ n_timesteps \in 0 .. MaxT
    /\ summary = EmptyDict
    /\ metric = <<>> /\ sel_idx = <<>>
    /\ tokens = <<>> /\ token1 = 0 /\ token2 = 0 /\ out = <<>>
    /\ args = NoArgs /\ modalities = <<>>
    /\ train_data = NoData /\ test_data = NoData

NextSummarize == SummarizeMetrics

SpecSummarize == InitSummarize /\ [][NextSummarize]_vars

----------------------------------------------------------------------------
(* C1 *)
SeqSumSq(s) == SeqSum([i \in 1 .. Len(s) |-> s[i] * s[i]])

\* x is the mean of the list val (numpy's: nan when the list is empty)
IsMeanOf(x, val) ==
    IF val = <<>> THEN x.k = "nan"
    ELSE x.k = "num" /\ x.n * Len(val) = x.d * SeqSum(val)

\* x is the population standard deviation of val: x >= 0 and
\* x^2 = E[v^2] - E[v]^2
IsStdOf(x, val) ==
    IF val = <<>> THEN x.k = "nan"
    ELSE /\ x.k = "sqrt"
         /\ x.n * Len(val) * Len(val) =
               x.d * (Len(val) * SeqSumSq(val) - SeqSum(val) * SeqSum(val))

\* x is v / n
IsQuotient(x, v, n) == x.k = "num" /\ x.n * n = x.d * v

ListKeys == {metrics[i][1] : i \in {j \in 1 .. Len(metrics) : metrics[j][2].list}}
AllKeys == {metrics[i][1] : i \in 1 .. Len(metrics)}

SummaryAsClaimed ==
    /\ \A i \in 1 .. Len(metrics) :
          LET key == metrics[i][1]
              val == metrics[i][2]
          IN  IF val.list
              THEN /\ key \in DOMAIN summary
                   /\ StdKey(key) \in DOMAIN summary
                   /\ IsMeanOf(summary[key], val.v)
                   /\ IsStdOf(summary[StdKey(key)], val.v)
              ELSE /\ key \in DOMAIN summary
                   /\ IsQuotient(summary[key], val.v[1], n_timesteps)
                   /\ StdKey(key) \notin DOMAIN summary
    /\ DOMAIN summary = AllKeys \cup {StdKey(k) : k \in ListKeys}

NoStdClash == \A k \in AllKeys : StdKey(k) \notin AllKeys

----------------------------------------------------------------------------
(* visualize: the selection of the examples to plot *)
MaxN == 7         \* longest metric list
MaxMetric == 1    \* metric values range over 0..MaxMetric

Min(a, b) == IF a < b THEN a ELSE b
Max(a, b) == IF a > b THEN a ELSE b

\* s[:k]
Prefix(s, k) == SubSeq(s, 1, Min(k, Len(s)))
\* s[-k:]
Suffix(s, k) == SubSeq(s, Max(1, Len(s) - k + 1), Len(s))
\* s[::-1]
Reversed(s) == [i \in 1 .. Len(s) |-> s[Len(s) + 1 - i]]

\* np.argsort(m) over the indices rem still to place: the 0-based indices in
\* ascending order of value.  The default sort is not stable, so equal values
\* come in any order.
RECURSIVE ArgSortFrom(_, _)
ArgSortFrom(m, rem) ==
    IF rem = {} THEN {<<>>}
    ELSE LET least == {i \in rem : \A j \in rem : m[i + 1] <= m[j + 1]}
         IN  UNION {{<<i>> \o t : t \in ArgSortFrom(m, rem \ {i})} : i \in least}

ArgSort(m) == ArgSortFrom(m, 0 .. Len(m) - 1)

\* The selection without the reversal of the second slice
SelectNoReverse(order) == Prefix(order, 4) \o Suffix(order, 4)

\* np.concatenate((order[:4], order[-4:][::-1]))
Select(order) == Prefix(order, 4) \o Reversed(Suffix(order, 4))

\* visualize(results, metric, args), up to the selection; the rest plots the
\* selected examples
Visualize ==
    /\ pc = "visualize"
    /\ \E order \in ArgSort(metric) : sel_idx' = Select(order)
    /\ pc' = "plot"
    /\ UNCHANGED <<metrics, n_timesteps, summary, metric, tokens, token1,
                   token2, out, args, modalities, train_data, test_data>>

InitVisualize ==
    /\ pc = "visualize"
    /\ metric \in UNION {[1 .. n -> 0 .. MaxMetric] : n \in 0 .. MaxN}
    /\ sel_idx = <<>>
    /\ metrics = <<>> /\ n_timesteps = 1 /\ summary = EmptyDict
    /\ tokens = <<>> /\ token1 = 0 /\ token2 = 0 /\ out = <<>>
    /\ args = NoArgs /\ modalities = <<>>
    /\ train_data = NoData /\ test_data = NoData

NextVisualize == Visualize

SpecVisualize == InitVisualize /\ [][NextVisualize]_vars

----------------------------------------------------------------------------
(* C2 *)
Indices == 0 .. Len(metric) - 1
MetricAt(i) == metric[i + 1]

\* sel[from .. from + k - 1] are k different indices holding the k lowest
\* metrics, in ascending order of metric
LowestAscending(sel, from, k) ==
    LET part == {sel[p] : p \in from .. from + k - 1}
    IN  /\ part \subseteq Indices
        /\ Cardinality(part) = k
        /\ \A p \in from .. from + k - 2 : MetricAt(sel[p]) <= MetricAt(sel[p + 1])
        /\ \A i \in part : \A j \in Indices \ part : MetricAt(i) <= MetricAt(j)

\* sel[from .. from + k - 1] are k different indices holding the k highest
\* metrics, in descending order of metric
HighestDescending(sel, from, k) ==
    LET part == {sel[p] : p \in from .. from + k - 1}
    IN  /\ part \subseteq Indices
        /\ Cardinality(part) = k
        /\ \A p \in from .. from + k - 2 : MetricAt(sel[p]) >= MetricAt(sel[p + 1])
        /\ \A i \in part : \A j \in Indices \ part : MetricAt(i) >= MetricAt(j)

----------------------------------------------------------------------------
(* scripts/test_spacy.py *)
MaxTokens == 3    \* longest parsed document

\* Tokens of the loaded model: a text and its word vector ("afskfsd" is out
\* of vocabulary and has the zero vector)
Vocab == {[text |-> "dog", vector |-> <<1, 0>>],
          [text |-> "cat", vector |-> <<1, 1>>],
          [text |-> "afskfsd", vector |-> <<0, 0>>]}

Dot(u, v) == SeqSum([i \in 1 .. Len(u) |-> u[i] * v[i]])

\* token1.similarity(token2): the cosine of the two vectors, held as
\* <<u.v, u.u, v.v>> for u.v / sqrt(u.u * v.v); 0.0 when a vector is zero
Similarity(t1, t2) ==
    IF Dot(t1.vector, t1.vector) = 0 \/ Dot(t2.vector, t2.vector) = 0
    THEN <<0, 1, 1>>
    ELSE <<Dot(t1.vector, t2.vector), Dot(t1.vector, t1.vector),
           Dot(t2.vector, t2.vector)>>

\* print(token1.text, token2.text, token1.similarity(token2))
Line(t1, t2) == <<t1.text, t2.text, Similarity(t1, t2)>>

ScriptFrame == <<metrics, n_timesteps, summary, metric, sel_idx, tokens,
                 args, modalities, train_data, test_data>>

\* The outer loop starts the inner loop at the token after token1
NextToken1Skipping ==
    /\ pc = "for token1"
    /\ token1 < Len(tokens)
    /\ token1' = token1 + 1
    /\ token2' = token1 + 1
    /\ pc' = "for token2"
    /\ UNCHANGED <<out, ScriptFrame>>

\* for token1 in tokens: the next token, and the inner loop from its start
NextToken1 ==
    /\ pc = "for token1"
    /\ token1 < Len(tokens)
    /\ token1' = token1 + 1
    /\ token2' = 0
    /\ pc' = "for token2"
    /\ UNCHANGED <<out, ScriptFrame>>

\* for token1 in tokens: exhausted, the script ends
EndScript ==
    /\ pc = "for token1"
    /\ token1 >= Len(tokens)
    /\ pc' = "done"
    /\ UNCHANGED <<token1, token2, out, ScriptFrame>>

\* for token2 in tokens: the next token, and the body's print
PrintPair ==
    /\ pc = "for token2"
    /\ token2 < Len(tokens)
    /\ token2' = token2 + 1
    /\ out' = Append(out, Line(tokens[token1], tokens[token2 + 1]))
    /\ UNCHANGED <<pc, token1, ScriptFrame>>

\* for token2 in tokens: exhausted, back to the outer loop
EndToken2 ==
    /\ pc = "for token2"
    /\ token2 >= Len(tokens)
    /\ pc' = "for token1"
    /\ UNCHANGED <<token1, token2, out, ScriptFrame>>

InitScript ==
    /\ pc = "for token1"
    /\ tokens \in UNION {[1 .. n -> Vocab] : n \in 0 .. MaxTokens}
    /\ token1 = 0 /\ token2 = 0 /\ out = <<>>
    /\ metrics = <<>> /\ n_timesteps = 1 /\ summary = EmptyDict
    /\ metric = <<>> /\ sel_idx = <<>>
    /\ args = NoArgs /\ modalities = <<>>
    /\ train_data = NoData /\ test_data = NoData

NextScript == NextToken1 \/ EndScript \/ PrintPair \/ EndToken2

SpecScript == InitScript /\ [][NextScript]_vars

\* The interpreter runs the script on: a step that can be taken is taken
FairSpecScript == SpecScript /\ WF_vars(NextScript)

----------------------------------------------------------------------------
(* C3 *)
\* The lines printed so far are the start of the row-major enumeration of
\* the ordered pairs of token positions
RowMajorSoFar ==
    LET n == Len(tokens)
    IN  /\ Len(out) <= n * n
        /\ \A p \in 1 .. Len(out) :
              out[p] = Line(tokens[((p - 1) \div n) + 1],
                            tokens[((p - 1) % n) + 1])

\* C3: the script prints one line for every ordered pair of the n tokens
\* (a token with itself included), n * n lines in row-major order, and then
\* terminates.
C3_AllPairsThenEnd ==
    /\ [](RowMajorSoFar /\ (pc = "done" => Len(out) = Len(tokens) * Len(tokens)))
    /\ <>[](pc = "done")

\* The script has ended on a document of several tokens, all pairs printed
C3_Witness ==
    /\ pc = "done"
    /\ Len(tokens) >= 2
    /\ Len(out) = Len(tokens) * Len(tokens)
    /\ \E i, j \in 1 .. Len(tokens) : tokens[i].text # tokens[j].text

----------------------------------------------------------------------------
(* default_args *)
MaxMods == 2       \* longest list of modalities
UniformDen == 2    \* corrupt['uniform'] ranges over k / UniformDen, k <= UniformDen

\* dims in build_model, which self.model.dims holds
Dims == [m \in {"spiral-x", "spiral-y"} |-> 1]

ModalityLists == UNION {[1 .. n -> DOMAIN Dims] : n \in 1 .. MaxMods}
Range(s) == {s[i] : i \in 1 .. Len(s)}

\* args.corrupt: a dict with or without the key 'uniform'
Corrupts ==
    {EmptyDict} \cup
    {[key \in {"uniform"} |-> Num(Rat(k, UniformDen))] : k \in 0 .. UniformDen}

\* --rec_mults given on the command line: a multiplier per modality
UserMults == {5, 7}
None == [none |-> TRUE, d |-> EmptyDict]
Given(d) == [none |-> FALSE, d |-> d]

\* args.corrupt.get('uniform', 0.0)
GetUniform(corrupt) ==
    IF "uniform" \in DOMAIN corrupt
    THEN <<corrupt["uniform"].n, corrupt["uniform"].d>>
    ELSE <<0, 1>>

\* {m : (1.0 / dims[m]) / len(args.modalities) * corrupt_mult
\*  for m in args.modalities}
DefaultRecMults(a) ==
    LET corrupt_mult == RatDiv(<<1, 1>>, RatSub(<<1, 1>>, GetUniform(a.corrupt)))
    IN  [m \in Range(a.modalities) |->
            Num(RatMul(RatDiv(RatDiv(<<1, 1>>, <<Dims[m], 1>>),
                              <<Len(a.modalities), 1>>),
                       corrupt_mult))]

ArgsFrame == <<metrics, n_timesteps, summary, metric, sel_idx, tokens,
               token1, token2, out, modalities, train_data, test_data>>

\* default_args without the test of args.rec_mults
DefaultArgsAlways ==
    /\ pc = "default_args"
    /\ IF GetUniform(args.corrupt) = <<1, 1>>
       THEN /\ pc' = "ZeroDivisionError"
            /\ args' = args
       ELSE /\ pc' = "return"
            /\ args' = [args EXCEPT !.rec_mults = Given(DefaultRecMults(args))]
    /\ UNCHANGED ArgsFrame

\* default_args(args), from the call to the return or to the exception
DefaultArgs ==
    /\ pc = "default_args"
    /\ IF ~args.rec_mults.none
       THEN /\ pc' = "return"
            /\ args' = args
       ELSE IF GetUniform(args.corrupt) = <<1, 1>>
            THEN \* 1 / (1 - uniform) divides by zero
                 /\ pc' = "ZeroDivisionError"
                 /\ args' = args
            ELSE /\ pc' = "return"
                 /\ args' = [args EXCEPT
                               !.rec_mults = Given(DefaultRecMults(args))]
    /\ UNCHANGED ArgsFrame

Subdirs == {"train", "test"}

InitArgs ==
    /\ pc = "default_args"
    /\ \E mods \in ModalityLists :
          args \in [modalities : {mods},
                    rec_mults : {None} \cup
                                {Given([m \in Range(mods) |-> Num(<<x, 1>>)]) :
                                    x \in UserMults},
                    corrupt : Corrupts,
                    normalize : {<<>>} \cup {<<m>> : m \in Range(mods)},
                    train_subdir : {"train"},
                    test_subdir : {"test"}]
    /\ modalities = <<>>
    /\ metrics = <<>> /\ n_timesteps = 1 /\ summary = EmptyDict
    /\ metric = <<>> /\ sel_idx = <<>>
    /\ tokens = <<>> /\ token1 = 0 /\ token2 = 0 /\ out = <<>>
    /\ train_data = NoData /\ test_data = NoData

NextArgs == DefaultArgs

SpecArgs == InitArgs /\ [][NextArgs]_vars

----------------------------------------------------------------------------
(* C4 *)
\* C4: when args.rec_mults is None, default_args sets the multiplier of every
\* modality m of args.modalities to 1 / dim(m), whatever the modalities and
\* the corrupt setting.
C4_OneOverDim ==
    [][(pc = "default_args" /\ args.rec_mults.none /\ pc' = "return") =>
          /\ ~args'.rec_mults.none
          /\ DOMAIN args'.rec_mults.d = Range(args.modalities)
          /\ \A m \in Range(args.modalities) :
                args'.rec_mults.d[m] = Num(Rat(1, Dims[m]))]_vars

(* C5 *)
\* C5: default_args returns a given args.rec_mults unchanged, and in every
\* case leaves every field of args other than rec_mults as it was.
C5_OnlyFillsRecMults ==
    [][pc = "default_args" =>
          /\ args'.modalities = args.modalities
          /\ args'.corrupt = args.corrupt
          /\ args'.normalize = args.normalize
          /\ args'.train_subdir = args.train_subdir
          /\ args'.test_subdir = args.test_subdir
          /\ (~args.rec_mults.none => args'.rec_mults = args.rec_mults)]_vars

\* default_args has returned args whose rec_mults was given (no default has
\* this value) while a corrupt setting was given too
C5_Witness ==
    /\ pc = "return"
    /\ ~args.rec_mults.none
    /\ \E m \in DOMAIN args.rec_mults.d : args.rec_mults.d[m] = Num(<<7, 1>>)
    /\ "uniform" \in DOMAIN args.corrupt
    /\ Len(args.modalities) = 2

----------------------------------------------------------------------------
(* load_data *)

\* The sequences SpiralsDataset reads for modality m under subdir
Raw(subdir, m) == <<"raw", subdir, m>>

\* SpiralsDataset(modalities, data_dir, subdir, truncate=True,
\*                item_as_dict=True): the data of each modality
SpiralsDataset(mods, subdir) == [m \in Range(mods) |-> Raw(subdir, m)]

\* The data x rescaled by the statistics of the data ref
Normalized(x, ref) == <<"normalized", x, ref>>

\* data.normalize_(modalities=mods, ref_data=ref): the data of every listed
\* modality rescaled in place by the statistics of ref's data as it is at
\* the call (of data's own when no ref_data is given, where ref = data)
Normalize_(data, mods, ref) ==
    [m \in DOMAIN data |->
        IF m \in Range(mods) THEN Normalized(data[m], ref[m]) ELSE data[m]]

LoadFrame == <<metrics, n_timesteps, summary, metric, sel_idx, tokens,
               token1, token2, out, args, modalities>>

\* load_data up to the two datasets read (lines 41-47)
ReadData ==
    /\ pc = "load_data"
    /\ train_data' = SpiralsDataset(modalities, args.train_subdir)
    /\ test_data' = SpiralsDataset(modalities, args.test_subdir)
    /\ pc' = "Done."
    /\ UNCHANGED LoadFrame

\* The normalization with the training data normalized first
NormalizeTrainFirst ==
    /\ pc = "Done."
    /\ IF Len(args.normalize) > 0
       THEN LET train_normalized ==
                    Normalize_(train_data, args.normalize, train_data)
            IN  /\ train_data' = train_normalized
                /\ test_data' = Normalize_(test_data, args.normalize,
                                           train_normalized)
       ELSE UNCHANGED <<train_data, test_data>>
    /\ pc' = "return"
    /\ UNCHANGED LoadFrame

\* load_data from there to its return (lines 48-55): the test data
\* normalized on the training data, then the training data on itself
NormalizeData ==
    /\ pc = "Done."
    /\ IF Len(args.normalize) > 0
       THEN LET test_normalized ==
                    Normalize_(test_data, args.normalize, train_data)
            IN  /\ test_data' = test_normalized
                /\ train_data' = Normalize_(train_data, args.normalize,
                                            train_data)
       ELSE UNCHANGED <<train_data, test_data>>
    /\ pc' = "return"
    /\ UNCHANGED LoadFrame

InitLoad ==
    /\ pc = "load_data"
    /\ modalities \in ModalityLists
    /\ args \in [modalities : {modalities},
                 rec_mults : {None},
                 corrupt : {EmptyDict},
                 normalize : UNION {[1 .. n -> Range(modalities)] :
                                       n \in 0 .. MaxMods},
                 train_subdir : Subdirs,
                 test_subdir : Subdirs]
    /\ train_data = NoData /\ test_data = NoData
    /\ metrics = <<>> /\ n_timesteps = 1 /\ summary = EmptyDict
    /\ metric = <<>> /\ sel_idx = <<>>
    /\ tokens = <<>> /\ token1 = 0 /\ token2 = 0 /\ out = <<>>

NextLoad == ReadData \/ NormalizeData

SpecLoad == InitLoad /\ [][NextLoad]_vars

----------------------------------------------------------------------------
(* C6 *)
\* C6: load_data normalizes the test data on the training data before it
\* normalizes the training data, so the statistics applied to the test data
\* are those of the training data as read; with an empty args.normalize it
\* normalizes neither dataset.
C6_TestOnRawTrain ==
    pc = "return" =>
        /\ DOMAIN train_data = Range(modalities)
        /\ DOMAIN test_data = Range(modalities)
        /\ \A m \in Range(modalities) :
              IF m \in Range(args.normalize)
              THEN /\ test_data[m] = <<"normalized", Raw(args.test_subdir, m),
                                       Raw(args.train_subdir, m)>>
                   /\ train_data[m] = <<"normalized", Raw(args.train_subdir, m),
                                        Raw(args.train_subdir, m)>>
              ELSE /\ test_data[m] = Raw(args.test_subdir, m)
                   /\ train_data[m] = Raw(args.train_subdir, m)

\* load_data has returned with one of two modalities normalized
C6_Witness ==
    /\ pc = "return"
    /\ \E m \in Range(modalities) :
          /\ m \in Range(args.normalize)
          /\ test_data[m][1] = "normalized"
          /\ train_data[m][1] = "normalized"
    /\ \E m \in Range(modalities) :
          /\ m \notin Range(args.normalize)
          /\ test_data[m][1] = "raw"
    /\ args.train_subdir # args.test_subdir

----------------------------------------------------------------------------
(* The driver and the script together: one of the functions above runs *)
Init == InitSummarize \/ InitVisualize \/ InitScript \/ InitArgs \/ InitLoad

Next ==
    \/ SummarizeMetrics
    \/ Visualize
    \/ NextToken1 \/ EndScript \/ PrintPair \/ EndToken2
    \/ DefaultArgs
    \/ ReadData \/ NormalizeData

Spec == Init /\ [][Next]_vars
====
